---- MODULE Spec2Model ----
(***************************************************************************)
(* Model of src/app.py: the three operations get_fireflies_transcripts,    *)
(* get_transcript_text_by_id and generate_sales_insights, and the          *)
(* Streamlit script main() that drives them from a single session slot.    *)
(*                                                                         *)
(* Python values are tagged records, so that None, a missing dict key, a   *)
(* list, a string and a dict stay distinguishable:                         *)
(*   Absent   a key that is not in a dict / an attribute that is not there *)
(*   JNull    None (JSON null)                                             *)
(*   JStr(s)  a str; s is the sequence of its characters                   *)
(*   JList(x) a list                                                       *)
(*   [tag |-> "obj", ...] a dict or an object, one field per key           *)
(***************************************************************************)
EXTENDS Integers, Sequences, FiniteSets, TLC

VARIABLES FIRELIES_API_KEY, FIRELIES_GRAPHQL_ENDPOINT, GOOGLE_API_KEY,
          session_state, pc, text, call, trace, loaded

vars == <<FIRELIES_API_KEY, FIRELIES_GRAPHQL_ENDPOINT, GOOGLE_API_KEY,
          session_state, pc, text, call, trace, loaded>>

config == <<FIRELIES_API_KEY, FIRELIES_GRAPHQL_ENDPOINT, GOOGLE_API_KEY>>

----------------------------------------------------------------------------
(* Bounds of the model. *)

MaxTranscripts == 2

MaxSentences == 2

MaxParts == 2

MaxCandidates == 2

----------------------------------------------------------------------------
(* Python values. *)

Absent == [tag |-> "absent"]

JNull == [tag |-> "null"]

JStr(s) == [tag |-> "str", val |-> s]

JList(xs) == [tag |-> "list", items |-> xs]

SeqsUpTo(S, n) == UNION {[1..k -> S] : k \in 0..n}

Range(s) == {s[i] : i \in 1..Len(s)}

(* dict.get(key, default): the default only when the key is missing. *)
Get(v, default) == IF v.tag = "absent" THEN default ELSE v

(* Python truth value of a value: None, "" and [] are false. *)
Truthy(v) ==
    CASE v.tag = "absent" -> FALSE
      [] v.tag = "null" -> FALSE
      [] v.tag = "str" -> v.val # <<>>
      [] v.tag = "list" -> v.items # <<>>
      [] OTHER -> TRUE

(* str.strip(): leading and trailing whitespace removed. *)
Whitespace == {" ", "\n"}

RECURSIVE lstrip(_)
lstrip(s) ==
    IF s # <<>> /\ Head(s) \in Whitespace THEN lstrip(Tail(s)) ELSE s

RECURSIVE rstrip(_)
rstrip(s) ==
    IF s # <<>> /\ s[Len(s)] \in Whitespace
    THEN rstrip(SubSeq(s, 1, Len(s) - 1))
    ELSE s

strip(s) == rstrip(lstrip(s))

(* "\n".join(parts), wrong on purpose: a separator after every part. *)
RECURSIVE join_trailing(_)
join_trailing(parts) ==
    IF parts = <<>> THEN <<>>
    ELSE Head(parts) \o <<"\n">> \o join_trailing(Tail(parts))

(* "\n".join(parts) *)
RECURSIVE join(_)
join(parts) ==
    IF parts = <<>> THEN <<>>
    ELSE IF Len(parts) = 1 THEN parts[1]
    ELSE Head(parts) \o <<"\n">> \o join(Tail(parts))

----------------------------------------------------------------------------
(* What a call of one of the three functions does: it returns a value or   *)
(* raises, after the side effects `events` (HTTP posts, notifications).    *)

Ret(v, ev) == [kind |-> "return", val |-> v, events |-> ev]

Raise(name, ev) ==
    [kind |-> "raise", val |-> [tag |-> "exc", name |-> name], events |-> ev]

Pending == [kind |-> "pending", val |-> Absent, events |-> <<>>]

(* No transport outcome: the function is not going to reach the network. *)
NoCall == [kind |-> "nocall"]

----------------------------------------------------------------------------
(* The transcription service: what requests.post(), raise_for_status() and *)
(* resp.json() can hand to the two GraphQL clients.                        *)

Statuses == {200, 404, 500}

ErrorsValues == {Absent, JList(<<>>), JList(<<JStr(<<"e">>)>>)}

Body(e, d) == [tag |-> "obj", errors |-> e, data |-> d]

Response(st, b) == [kind |-> "response", status |-> st, body |-> b]

TransportFailures ==
    {[kind |-> "exception"]} \cup
    {Response(st, Absent) : st \in {st \in Statuses : st >= 400}}

(* Query A: transcripts { id title }.  Transcript ids are unique; the    *)
(* transcript with id 1 carries no title.                                *)
Summary(i) ==
    [tag |-> "obj", id |-> i,
     title |-> IF i = 1 THEN Absent ELSE JStr(<<"T">>)]

TranscriptLists ==
    {[k \in DOMAIN ids |-> Summary(ids[k])] :
        ids \in {q \in SeqsUpTo(1..MaxTranscripts, MaxTranscripts) :
                    \A a, b \in DOMAIN q : a # b => q[a] # q[b]}}

ListerData ==
    {Absent, JNull} \cup
    {[tag |-> "obj", transcripts |-> t] :
        t \in {Absent, JNull} \cup {JList(l) : l \in TranscriptLists}}

ListerOutcomes ==
    TransportFailures \cup
    {Response(200, Body(e, d)) : e \in ErrorsValues, d \in ListerData}

(* Query B: transcript(id) { sentences { text } }. *)
Hello == <<"H", "e", "l", "l", "o">>

world == <<"w", "o", "r", "l", "d">>

SentenceTexts == {<<>>, <<" ">>, Hello, world}

Sentences ==
    {[tag |-> "obj", text |-> t] :
        t \in {Absent, JNull} \cup {JStr(x) : x \in SentenceTexts}}

FetcherDataUpTo(n) ==
    {Absent, JNull} \cup
    {[tag |-> "obj", transcript |-> t] :
        t \in {Absent, JNull} \cup
              {[tag |-> "obj", sentences |-> x] :
                  x \in {Absent, JNull} \cup
                        {JList(l) : l \in SeqsUpTo(Sentences, n)}}}

FetcherOutcomesUpTo(n) ==
    TransportFailures \cup
    {Response(200, Body(e, d)) : e \in ErrorsValues, d \in FetcherDataUpTo(n)}

FetcherOutcomes == FetcherOutcomesUpTo(MaxSentences)

----------------------------------------------------------------------------
(* get_fireflies_transcripts with the configuration check of line 32     *)
(* wrong on purpose: `and` in place of `or`.                             *)
get_fireflies_transcripts_and(key, endpoint, http) ==
    IF key = "" /\ endpoint = ""
    THEN Ret(JList(<<>>), <<"st.error:config">>)
    ELSE IF http.kind = "nocall" \/ http.kind = "exception" \/ http.status >= 400
    THEN Ret(JList(<<>>), <<"requests.post", "st.error:request">>)
    ELSE IF http.body.errors.tag # "absent"
    THEN Ret(JList(<<>>), <<"requests.post", "st.error:graphql">>)
    ELSE LET d == Get(http.body.data, [tag |-> "obj", transcripts |-> Absent])
         IN  IF d.tag = "null"
             THEN Raise("AttributeError", <<"requests.post">>)
             ELSE Ret(Get(d.transcripts, JList(<<>>)), <<"requests.post">>)

(* get_fireflies_transcripts with the errors check of line 61 wrong on   *)
(* purpose: errors are ignored when the body also carries data.          *)
get_fireflies_transcripts_data_first(key, endpoint, http) ==
    IF key = "" \/ endpoint = ""
    THEN Ret(JList(<<>>), <<"st.error:config">>)
    ELSE IF http.kind = "exception" \/ http.status >= 400
    THEN Ret(JList(<<>>), <<"requests.post", "st.error:request">>)
    ELSE IF http.body.errors.tag # "absent" /\ http.body.data.tag # "obj"
    THEN Ret(JList(<<>>), <<"requests.post", "st.error:graphql">>)
    ELSE LET d == Get(http.body.data, [tag |-> "obj", transcripts |-> Absent])
         IN  IF d.tag = "null"
             THEN Raise("AttributeError", <<"requests.post">>)
             ELSE Ret(Get(d.transcripts, JList(<<>>)), <<"requests.post">>)

(* get_fireflies_transcripts(): the Lister.  key and endpoint are the    *)
(* module globals; http is what the transport does if it is reached.     *)
get_fireflies_transcripts(key, endpoint, http) ==
    IF key = "" \/ endpoint = ""
    THEN Ret(JList(<<>>), <<"st.error:config">>)
    ELSE IF http.kind = "exception" \/ http.status >= 400
    THEN Ret(JList(<<>>), <<"requests.post", "st.error:request">>)
    ELSE IF http.body.errors.tag # "absent"
    THEN Ret(JList(<<>>), <<"requests.post", "st.error:graphql">>)
    ELSE LET d == Get(http.body.data, [tag |-> "obj", transcripts |-> Absent])
         IN  IF d.tag = "null"
             THEN Raise("AttributeError", <<"requests.post">>)
             ELSE Ret(Get(d.transcripts, JList(<<>>)), <<"requests.post">>)

(* The list comprehension and join of line 109 over a list of sentences. *)
sentence_texts(sentences, ev) ==
    IF \E i \in DOMAIN sentences : sentences[i].text.tag = "absent"
    THEN Raise("KeyError", ev)
    ELSE IF \E i \in DOMAIN sentences : sentences[i].text.tag # "str"
    THEN Raise("TypeError", ev)
    ELSE Ret(JStr(join([i \in DOMAIN sentences |-> sentences[i].text.val])), ev)

(* get_transcript_text_by_id(transcript_id): the Fetcher.  It does not   *)
(* check the configuration; the id only travels in the query variables.  *)
get_transcript_text_by_id(transcript_id, http) ==
    IF http.kind = "exception" \/ http.status >= 400
    THEN Ret(JStr(<<>>), <<"requests.post", "st.error:request">>)
    ELSE IF http.body.errors.tag # "absent"
    THEN Ret(JStr(<<>>), <<"requests.post", "st.error:graphql">>)
    ELSE LET d == Get(http.body.data, [tag |-> "obj", transcript |-> Absent])
         IN  IF d.tag = "null"
             THEN Raise("AttributeError", <<"requests.post">>)
             ELSE LET transcript ==
                          Get(d.transcript, [tag |-> "obj", sentences |-> Absent])
                  IN  IF transcript.tag = "null"
                      THEN Raise("AttributeError", <<"requests.post">>)
                      ELSE LET sentences == Get(transcript.sentences, JList(<<>>))
                           IN  IF sentences.tag = "null"
                               THEN Raise("TypeError", <<"requests.post">>)
                               ELSE sentence_texts(sentences.items,
                                                   <<"requests.post">>)

----------------------------------------------------------------------------
(* The generative-model service: what genai.configure() and              *)
(* model.generate_content() can hand to generate_sales_insights.         *)

BlockReasons == {"BLOCK_REASON_UNSPECIFIED", "SAFETY", "OTHER"}

(* The enum member with value 0 is false in a Python condition. *)
ReasonSet(b) == b # "BLOCK_REASON_UNSPECIFIED"

PromptFeedbacks ==
    {JNull} \cup {[tag |-> "obj", block_reason |-> b] : b \in BlockReasons}

PrimaryTexts ==
    {Absent, [tag |-> "raises"]} \cup
    {JStr(x) : x \in {<<" ">>, <<" ", "a", "\n">>}}

Parts == {[tag |-> "obj", text |-> JStr(x)] : x \in {<<" ">>, <<" ", "b", " ">>}}

CandidatesWith(maxP) ==
    {[tag |-> "obj", content |-> c] :
        c \in {Absent} \cup
              {[tag |-> "obj", parts |-> ps] :
                  ps \in {Absent} \cup {JList(l) : l \in SeqsUpTo(Parts, maxP)}}}

GenaiOutcomesUpTo(maxC, maxP) ==
    {[kind |-> "configure_raises"], [kind |-> "invoke_raises"]} \cup
    {[kind |-> "response",
      response |-> [tag |-> "obj", prompt_feedback |-> f,
                    candidates |-> cs, text |-> t]] :
        f \in PromptFeedbacks,
        cs \in SeqsUpTo(CandidatesWith(maxP), maxC),
        t \in PrimaryTexts}

GenaiOutcomes == GenaiOutcomesUpTo(MaxCandidates, MaxParts)

(* The strings generate_sales_insights builds itself. *)
Msg(id, arg) == [tag |-> "msg", id |-> id, arg |-> arg]

NotConfigured == Msg("Chave de API do Google nao configurada.", "")

Blocked(reason) == Msg("**Bloqueado pelo modelo**. Razao: ", reason)

NoCandidate == Msg("Nenhum candidato de resposta retornado.", "")

NoInsights == Msg("Nao foi possivel extrair insights do modelo.", "")

ExceptionMessage(e) == Msg("Ocorreu uma excecao ao gerar insights: ", e)

GenaiCalls == <<"genai.configure", "generate_content">>

(* Lines 165-176: the primary text, then the first candidate's first     *)
(* part, then the fixed message.                                         *)
extract_text(response) ==
    LET candidate == response.candidates[1]
    IN  IF response.text.tag = "raises"
        THEN ExceptionMessage("ValueError")
        ELSE IF response.text.tag = "str" /\ strip(response.text.val) # <<>>
        THEN JStr(strip(response.text.val))
        ELSE IF /\ candidate.content.tag # "absent"
                /\ candidate.content.parts.tag # "absent"
                /\ Truthy(candidate.content.parts)
        THEN JStr(strip(candidate.content.parts.items[1].text.val))
        ELSE NoInsights

(* generate_sales_insights with the checks of lines 158 and 162 in the   *)
(* wrong order on purpose.                                               *)
generate_sales_insights_candidates_first(transcript_text, key, g) ==
    IF key = ""
    THEN Ret(NotConfigured, <<>>)
    ELSE IF g.kind = "configure_raises"
    THEN Raise("ConfigureError", <<"genai.configure">>)
    ELSE IF g.kind = "invoke_raises"
    THEN Ret(ExceptionMessage("InvokeError"), GenaiCalls)
    ELSE LET response == g.response
         IN  IF response.candidates = <<>>
             THEN Ret(NoCandidate, GenaiCalls)
             ELSE IF /\ Truthy(response.prompt_feedback)
                     /\ ReasonSet(response.prompt_feedback.block_reason)
             THEN Ret(Blocked(response.prompt_feedback.block_reason), GenaiCalls)
             ELSE Ret(extract_text(response), GenaiCalls)

(* generate_sales_insights(transcript_text): the Generator.  key is the  *)
(* module global GOOGLE_API_KEY; g is what the service does if reached.  *)
generate_sales_insights(transcript_text, key, g) ==
    IF key = ""
    THEN Ret(NotConfigured, <<>>)
    ELSE IF g.kind = "configure_raises"
    THEN Raise("ConfigureError", <<"genai.configure">>)
    ELSE IF g.kind = "invoke_raises"
    THEN Ret(ExceptionMessage("InvokeError"), GenaiCalls)
    ELSE LET response == g.response
         IN  IF /\ Truthy(response.prompt_feedback)
                /\ ReasonSet(response.prompt_feedback.block_reason)
             THEN Ret(Blocked(response.prompt_feedback.block_reason), GenaiCalls)
             ELSE IF response.candidates = <<>>
             THEN Ret(NoCandidate, GenaiCalls)
             ELSE Ret(extract_text(response), GenaiCalls)

----------------------------------------------------------------------------
(* What the transport can answer given the configuration: nothing is     *)
(* asked of it when a function returns before its network call, and      *)
(* requests.post("") can only raise.                                     *)

ListerTransport(key, endpoint) ==
    IF key = "" \/ endpoint = "" THEN {NoCall} ELSE ListerOutcomes

FetcherTransport(endpoint, outcomes) ==
    IF endpoint = "" THEN {[kind |-> "exception"]} ELSE outcomes

GenaiTransport(key, outcomes) == IF key = "" THEN {NoCall} ELSE outcomes

(* The script is driven with transcripts of at most two sentences and    *)
(* with generative responses of at most one candidate with at most one   *)
(* part; the functions on their own get the full sets.                   *)
UiFetcherOutcomes == FetcherOutcomesUpTo(2)

UiGenaiOutcomes == GenaiOutcomesUpTo(1, 1)

----------------------------------------------------------------------------
(* The Streamlit script.  Every user action reruns main(); a run is one  *)
(* action, except that a "Gerar Insights" run is split at the return of  *)
(* get_transcript_text_by_id (pc = "fetched", the local `text` set).     *)
(* trace lists what the current run did; loaded is the value the last    *)
(* returning call of get_fireflies_transcripts at line 195 returned.     *)

E(name) == [ev |-> name, val |-> Absent]

EV(name, v) == [ev |-> name, val |-> v]

NoCallYet == [fn |-> "none", arg |-> Absent, input |-> NoCall, out |-> Pending]

(* Lines 198-206: the slot is created if missing, then read. *)
ensure_key(slot) == IF slot.tag = "absent" THEN JList(<<>>) ELSE slot

render(slot) ==
    IF Truthy(slot) THEN <<E("st.subheader")>> ELSE <<E("st.info")>>

Init ==
    /\ FIRELIES_API_KEY \in {"", "key"}
    /\ FIRELIES_GRAPHQL_ENDPOINT \in {"", "url"}
    /\ GOOGLE_API_KEY \in {"", "gkey"}
    /\ session_state = Absent
    /\ pc = "idle"
    /\ text = Absent
    /\ call = NoCallYet
    /\ trace = <<>>
    /\ loaded = JList(<<>>)

(* A run of main() with no button pressed (the page is opened or redrawn). *)
Open ==
    /\ pc = "idle"
    /\ session_state' = ensure_key(session_state)
    /\ trace' = <<E("open")>> \o render(session_state')
    /\ UNCHANGED <<config, pc, text, call, loaded>>

(* A run with "Carregar Lista de Transcricoes" pressed: lines 194-206. *)
Load(http) ==
    /\ pc = "idle"
    /\ session_state.tag # "absent"
    /\ LET out == get_fireflies_transcripts(
                      FIRELIES_API_KEY, FIRELIES_GRAPHQL_ENDPOINT, http)
       IN  IF out.kind = "raise"
           THEN /\ session_state' = session_state
                /\ loaded' = loaded
                /\ trace' = <<E("load")>> \o
                            [i \in DOMAIN out.events |-> E(out.events[i])] \o
                            <<EV("raise", out.val)>>
           ELSE /\ session_state' = out.val
                /\ loaded' = out.val
                /\ trace' = <<E("load")>> \o
                            [i \in DOMAIN out.events |-> E(out.events[i])] \o
                            render(out.val)
    /\ UNCHANGED <<config, pc, text, call>>

(* A run with the "Gerar Insights" button of the i-th listed transcript  *)
(* pressed, up to the return of the Fetcher: lines 207-219.              *)
ClickGenerate(i, http) ==
    /\ pc = "idle"
    /\ Truthy(session_state)
    /\ i \in DOMAIN session_state.items
    /\ LET transcript_id == session_state.items[i].id
           out == get_transcript_text_by_id(transcript_id, http)
       IN  /\ trace' = <<EV("generate", transcript_id),
                         EV("get_transcript_text_by_id", out.val)>>
           /\ IF out.kind = "raise"
              THEN pc' = "idle" /\ text' = Absent
              ELSE pc' = "fetched" /\ text' = out.val
    /\ UNCHANGED <<config, session_state, call, loaded>>

(* The test of line 220 without its strip(), on purpose. *)
not_text(t) == t.val = <<>>

(* Line 220: `not text.strip()`. *)
not_text_strip(t) == strip(t.val) = <<>>

(* Lines 220-221: nothing to analyse. *)
WarnEmpty ==
    /\ pc = "fetched"
    /\ not_text_strip(text)
    /\ trace' = Append(trace, E("st.warning"))
    /\ pc' = "idle"
    /\ text' = Absent
    /\ UNCHANGED <<config, session_state, call, loaded>>

(* RunGenerator with the insights written back into the session slot on  *)
(* purpose. *)
RunGenerator_cached(g) ==
    /\ pc = "fetched"
    /\ ~not_text_strip(text)
    /\ LET out == generate_sales_insights(text, GOOGLE_API_KEY, g)
       IN  /\ trace' = Append(trace, EV("generate_sales_insights", out.val))
           /\ session_state' = JList(<<>>)
    /\ pc' = "idle"
    /\ text' = Absent
    /\ UNCHANGED <<config, call, loaded>>

(* Lines 222-226: the Generator is called and its result rendered. *)
RunGenerator(g) ==
    /\ pc = "fetched"
    /\ ~not_text_strip(text)
    /\ LET out == generate_sales_insights(text, GOOGLE_API_KEY, g)
       IN  trace' = Append(trace, EV("generate_sales_insights", out.val)) \o
                    (IF out.kind = "raise"
                     THEN <<>>
                     ELSE <<E("st.success"), EV("st.markdown", out.val)>>)
    /\ pc' = "idle"
    /\ text' = Absent
    /\ UNCHANGED <<config, session_state, call, loaded>>

Next ==
    \/ Open
    \/ \E http \in ListerTransport(FIRELIES_API_KEY, FIRELIES_GRAPHQL_ENDPOINT) :
           Load(http)
    \/ \E i \in 1..MaxTranscripts :
           \E http \in FetcherTransport(FIRELIES_GRAPHQL_ENDPOINT,
                                        UiFetcherOutcomes) :
               ClickGenerate(i, http)
    \/ WarnEmpty
    \/ \E g \in GenaiTransport(GOOGLE_API_KEY, UiGenaiOutcomes) : RunGenerator(g)

Spec == Init /\ [][Next]_vars

----------------------------------------------------------------------------
(* The three functions called on their own: the initial state holds the  *)
(* configuration and one pending call, the step makes the call.          *)

PendingCall(fn, arg, input) ==
    [fn |-> fn, arg |-> arg, input |-> input, out |-> Pending]

FnInit ==
    /\ session_state = Absent
    /\ pc = "call"
    /\ text = Absent
    /\ trace = <<>>
    /\ loaded = JList(<<>>)
    /\ \/ /\ FIRELIES_API_KEY \in {"", "key"}
          /\ FIRELIES_GRAPHQL_ENDPOINT \in {"", "url"}
          /\ GOOGLE_API_KEY = "gkey"
          /\ call \in {PendingCall("get_fireflies_transcripts", Absent, h) :
                  h \in ListerTransport(FIRELIES_API_KEY,
                                        FIRELIES_GRAPHQL_ENDPOINT)}
       \/ /\ FIRELIES_API_KEY = "key"
          /\ FIRELIES_GRAPHQL_ENDPOINT \in {"", "url"}
          /\ GOOGLE_API_KEY = "gkey"
          /\ call \in {PendingCall("get_transcript_text_by_id", id, h) :
                  id \in 1..MaxTranscripts,
                  h \in FetcherTransport(FIRELIES_GRAPHQL_ENDPOINT,
                                         FetcherOutcomes)}
       \/ /\ FIRELIES_API_KEY = "key"
          /\ FIRELIES_GRAPHQL_ENDPOINT = "url"
          /\ GOOGLE_API_KEY \in {"", "gkey"}
          /\ call \in {PendingCall("generate_sales_insights", JStr(Hello), g) :
                  g \in GenaiTransport(GOOGLE_API_KEY, GenaiOutcomes)}

CallLister ==
    /\ pc = "call"
    /\ call.fn = "get_fireflies_transcripts"
    /\ call' = [call EXCEPT !.out = get_fireflies_transcripts(
                    FIRELIES_API_KEY, FIRELIES_GRAPHQL_ENDPOINT, call.input)]
    /\ pc' = "done"
    /\ UNCHANGED <<config, session_state, text, trace, loaded>>

CallFetcher ==
    /\ pc = "call"
    /\ call.fn = "get_transcript_text_by_id"
    /\ call' = [call EXCEPT !.out = get_transcript_text_by_id(call.arg, call.input)]
    /\ pc' = "done"
    /\ UNCHANGED <<config, session_state, text, trace, loaded>>

CallGenerator ==
    /\ pc = "call"
    /\ call.fn = "generate_sales_insights"
    /\ call' = [call EXCEPT !.out = generate_sales_insights(
                    call.arg, GOOGLE_API_KEY, call.input)]
    /\ pc' = "done"
    /\ UNCHANGED <<config, session_state, text, trace, loaded>>

FnNext == CallLister \/ CallFetcher \/ CallGenerator

FnSpec == FnInit /\ [][FnNext]_vars

----------------------------------------------------------------------------
(* Properties. *)

Done(fn) == pc = "done" /\ call.fn = fn

Events == Range(call.out.events)

(* A 2xx response whose body has no `errors` key. *)
CleanResponse == call.input.kind = "response" /\ call.input.status = 200
                 /\ call.input.body.errors.tag = "absent"

(* A 2xx response whose body has a non-empty `errors` array. *)
ErrorsResponse == call.input.kind = "response" /\ call.input.status = 200
                  /\ Truthy(call.input.body.errors)

(* C1: the Lister and the Fetcher never raise: whatever the transport    *)
(* does and whatever JSON body arrives, get_fireflies_transcripts        *)
(* returns a sequence and get_transcript_text_by_id returns a string.    *)
C1_ListerFetcherNeverRaise ==
    /\ Done("get_fireflies_transcripts") =>
           call.out.kind = "return" /\ call.out.val.tag = "list"
    /\ Done("get_transcript_text_by_id") =>
           call.out.kind = "return" /\ call.out.val.tag = "str"

(* C2: generate_sales_insights never raises: an exception raised while   *)
(* the client is configured or the model invoked comes back as a string  *)
(* describing it.                                                        *)
C2_GeneratorNeverRaises ==
    Done("generate_sales_insights") =>
        /\ call.out.kind = "return"
        /\ call.input.kind \in {"configure_raises", "invoke_raises"} =>
               call.out.val.tag = "msg" /\ call.out.val.arg # ""

(* C3: with the API key or the endpoint empty, get_fireflies_transcripts *)
(* returns the empty sequence, notifies a configuration error and makes  *)
(* no HTTP call.                                                         *)
C3_MissingConfigNoCall ==
    Done("get_fireflies_transcripts")
    /\ (FIRELIES_API_KEY = "" \/ FIRELIES_GRAPHQL_ENDPOINT = "") =>
        /\ call.out.kind = "return"
        /\ call.out.val = JList(<<>>)
        /\ "st.error:config" \in Events
        /\ "requests.post" \notin Events

C3_Witness ==
    /\ Done("get_fireflies_transcripts")
    /\ FIRELIES_API_KEY = "key"
    /\ FIRELIES_GRAPHQL_ENDPOINT = ""
    /\ call.out.val = JList(<<>>)

(* C4: a 2xx response with a non-empty `errors` array makes the Lister   *)
(* return the empty sequence and the Fetcher the empty string, each      *)
(* after a notification and without raising, whatever `data` it carries. *)
C4_GraphQLErrors ==
    /\ Done("get_fireflies_transcripts") /\ ErrorsResponse =>
           /\ call.out.kind = "return"
           /\ call.out.val = JList(<<>>)
           /\ "st.error:graphql" \in Events
    /\ Done("get_transcript_text_by_id") /\ ErrorsResponse =>
           /\ call.out.kind = "return"
           /\ call.out.val = JStr(<<>>)
           /\ "st.error:graphql" \in Events

C4_Witness ==
    /\ Done("get_fireflies_transcripts")
    /\ ErrorsResponse
    /\ call.input.body.data.tag = "obj"
    /\ Truthy(call.input.body.data.transcripts)
    /\ call.out.val = JList(<<>>)

(* The sentence list of a clean response all of whose sentences carry a  *)
(* text string; <<>> for any other call.                                 *)
HasSentenceTexts ==
    /\ Done("get_transcript_text_by_id")
    /\ CleanResponse
    /\ call.input.body.data.tag = "obj"
    /\ call.input.body.data.transcript.tag = "obj"
    /\ call.input.body.data.transcript.sentences.tag = "list"
    /\ \A s \in Range(call.input.body.data.transcript.sentences.items) :
           s.text.tag = "str"

ApiTexts ==
    LET items == call.input.body.data.transcript.sentences.items
    IN  [i \in DOMAIN items |-> items[i].text.val]

(* Where the i-th text starts in the joined string (0-based). *)
RECURSIVE Offset(_, _)
Offset(ts, i) == IF i = 1 THEN 0 ELSE Offset(ts, i - 1) + Len(ts[i - 1]) + 1

(* C5: on a response without errors get_transcript_text_by_id returns    *)
(* the sentence texts in the API's order with exactly one newline        *)
(* between neighbours and none before or after; zero sentences give "",  *)
(* and ["Hello", "world"] gives "Hello\nworld".                          *)
C5_JoinedInOrder ==
    HasSentenceTexts =>
        LET ts == ApiTexts
            n == Len(ts)
            r == call.out.val.val
        IN  /\ call.out.kind = "return"
            /\ call.out.val.tag = "str"
            /\ n = 0 => r = <<>>
            /\ n > 0 => Len(r) = Offset(ts, n) + Len(ts[n])
            /\ \A i \in 1..n :
                   /\ SubSeq(r, Offset(ts, i) + 1, Offset(ts, i) + Len(ts[i])) = ts[i]
                   /\ i > 1 => r[Offset(ts, i)] = "\n"
            /\ ts = <<Hello, world>> =>
                   r = <<"H", "e", "l", "l", "o", "\n", "w", "o", "r", "l", "d">>

C5_Witness ==
    /\ HasSentenceTexts
    /\ ApiTexts = <<Hello, world>>
    /\ call.out.val = JStr(Hello \o <<"\n">> \o world)

(* The response of a Generator call that got one. *)
GotResponse == Done("generate_sales_insights") /\ call.input.kind = "response"

BlockReasonOf(response) ==
    IF response.prompt_feedback.tag = "obj"
       /\ response.prompt_feedback.block_reason # "BLOCK_REASON_UNSPECIFIED"
    THEN response.prompt_feedback.block_reason
    ELSE ""

(* C6: a response with a block reason yields the blocked message with    *)
(* that reason, whatever its text and candidates; a response with no     *)
(* block reason and no candidates yields the fixed no-candidate message. *)
C6_BlockedThenNoCandidate ==
    GotResponse =>
        LET response == call.input.response
            reason == BlockReasonOf(response)
        IN  /\ reason # "" =>
                   /\ call.out.kind = "return"
                   /\ call.out.val = Blocked(reason)
                   /\ call.out.val.arg = reason
            /\ reason = "" /\ response.candidates = <<>> =>
                   /\ call.out.kind = "return"
                   /\ call.out.val = NoCandidate

C6_Witness ==
    /\ GotResponse
    /\ BlockReasonOf(call.input.response) = "SAFETY"
    /\ call.input.response.candidates = <<>>
    /\ call.input.response.text.tag = "str"
    /\ call.out.val = Blocked("SAFETY")

(* A returned value that is a string with nothing but whitespace in it. *)
Blank(v) == v.tag = "str" /\ strip(v.val) = <<>>

FirstPartText(response) ==
    LET c == response.candidates[1].content
    IN  IF c.tag = "obj" /\ c.parts.tag = "list" /\ c.parts.items # <<>>
        THEN c.parts.items[1].text
        ELSE Absent

(* C7: with no block reason and a candidate, the trimmed primary text is *)
(* returned if it is not blank, else the trimmed text of the first       *)
(* candidate's first part, and when neither is non-blank the fixed       *)
(* could-not-extract message: never an empty or whitespace-only string.  *)
C7_NeverBlank ==
    GotResponse
    /\ BlockReasonOf(call.input.response) = ""
    /\ call.input.response.candidates # <<>>
    /\ call.input.response.text.tag # "raises" =>
        LET response == call.input.response
            part == FirstPartText(response)
        IN  /\ call.out.kind = "return"
            /\ ~Blank(call.out.val)
            /\ call.out.val =
                 IF response.text.tag = "str" /\ ~Blank(response.text)
                 THEN JStr(strip(response.text.val))
                 ELSE IF part.tag = "str" /\ ~Blank(part)
                 THEN JStr(strip(part.val))
                 ELSE NoInsights

(* The events of the current run, and whether it is a generate run. *)
TraceEvents(t) == {t[i].ev : i \in DOMAIN t}

IsGenerate(t) == t # <<>> /\ t[1].ev = "generate"

Positions(t, ev) == {i \in DOMAIN t : t[i].ev = ev}

(* C8: no step of a generate run changes the session list (or the        *)
(* configuration the next run reads), and after every step the list is   *)
(* the value the most recent returning load produced, the empty list if  *)
(* there was none.                                                       *)
C8_GenerateKeepsList ==
    [][/\ IsGenerate(trace') => session_state' = session_state /\ config' = config
       /\ session_state'.tag # "absent" => session_state' = loaded']_vars

C8_Witness ==
    /\ pc = "idle"
    /\ IsGenerate(trace)
    /\ "st.markdown" \in TraceEvents(trace)
    /\ Len(session_state.items) = 2
    /\ session_state = loaded

(* C9: the slot is empty on first access, every load replaces it by the  *)
(* Lister's return value, and it always holds a sequence of summaries.   *)
C9_SlotIsSequence ==
    /\ session_state.tag # "absent" =>
           session_state.tag = "list" /\ session_state = loaded
    /\ trace # <<>> /\ trace[1].ev = "load" =>
           "raise" \notin TraceEvents(trace)

(* C10 as claimed: in a generate run the Generator is called if and only *)
(* if the string the Fetcher returned is non-empty.                      *)
C10_CalledIffNonEmpty ==
    [][pc = "fetched" =>
          ("generate_sales_insights" \in TraceEvents(trace') <=> text.val # <<>>)]_vars

(* C10 as amended: a generate run calls the Fetcher once and then the    *)
(* Generator at most once; the Generator is called, and what it returns  *)
(* rendered, if and only if the string the Fetcher returned is not blank *)
(* after trimming; otherwise a warning is shown and the Generator is not *)
(* called.                                                               *)
C10_CalledIffNonBlank ==
    [][/\ pc = "fetched" =>
            LET called == "generate_sales_insights" \in TraceEvents(trace')
            IN  /\ called <=> strip(text.val) # <<>>
                /\ ~called => "st.warning" \in TraceEvents(trace')
                /\ called => "st.warning" \notin TraceEvents(trace')
                /\ \A i \in Positions(trace', "generate_sales_insights") :
                       trace'[i].val.tag # "exc" =>
                           \E j \in Positions(trace', "st.markdown") :
                               j > i /\ trace'[j].val = trace'[i].val
       /\ IsGenerate(trace') =>
            /\ Cardinality(Positions(trace', "get_transcript_text_by_id")) = 1
            /\ Cardinality(Positions(trace', "generate_sales_insights")) <= 1
            /\ \A i \in Positions(trace', "generate_sales_insights") :
                   \E j \in Positions(trace', "get_transcript_text_by_id") :
                       j < i /\ trace'[j].val.tag = "str"
            /\ "st.markdown" \in TraceEvents(trace') =>
                   "generate_sales_insights" \in TraceEvents(trace')]_vars

C10_Witness ==
    /\ pc = "idle"
    /\ IsGenerate(trace)
    /\ trace[2].val = JStr(<<" ", "\n">> \o Hello)
    /\ "st.markdown" \in TraceEvents(trace)

====
